---- MODULE Spec2Model ----
(***************************************************************************)
(* RefCord (src/bot.py): invite attribution by before/after use-count      *)
(* snapshots, the referral ledger (user_invites, join_events) and the      *)
(* reward policy.  One asyncio event loop: every handler is a task that    *)
(* runs atomically between two awaits; the actions below are those         *)
(* segments.  The platform (Discord) and the SQLite file are the           *)
(* environment: plat is the platform's live invite list per guild, and     *)
(* user_invites / join_events are the COMMITTED contents of the database.  *)
(* A reply of the platform or of the database and the code that runs when  *)
(* the task resumes with it are one action, taken at the time of the       *)
(* reply, except in refresh_guild_invites, where the two are apart.        *)
(***************************************************************************)
EXTENDS Integers, Sequences, FiniteSets, Bags, TLC

\* ------------------------------------------------------------ universe
Guilds == {1, 2}
Codes == {"A", "B"}
Users == {"u1", "u2"}
Roles == {"roleX", "roleY"}
\* number of member joins (one on_member_join task each)
MaxJoins == 2
\* number of invite creations, invite deletions and cache refreshes
MaxOps == 3
\* the guild whose channels the invites of the runs are created in
InviteGuilds == {1}
Members == 1..MaxJoins
None == "None"
Vanity == "vanity"

\* Optional[T] as a set of at most one element
Nothing == {}
Some(x) == {x}
The(s) == CHOOSE x \in s : TRUE

\* ------------------------------------------------- str() / int() on keys
\* Threshold keys of REFERRAL_REWARDS_JSON are JSON strings; the code parses
\* them with int() and indexes the mapping again with str().
ThresholdKeys == {"1", "2", "02", "5", "05", "10"}
IntOf == [s \in ThresholdKeys |->
            CASE s = "1" -> 1 [] s = "2" -> 2 [] s = "02" -> 2
              [] s = "5" -> 5 [] s = "05" -> 5 [] s = "10" -> 10]
StrOf(n) == CASE n = 1 -> "1" [] n = 2 -> "2" [] n = 5 -> "5" [] n = 10 -> "10"

\* ---------------------------------------------------------- dict helpers
EmptyMap == [c \in {} |-> 0]
Get(d, k, default) == IF k \in DOMAIN d THEN d[k] ELSE default
Put(d, k, v) == [x \in (DOMAIN d) \cup {k} |-> IF x = k THEN v ELSE d[x]]
Pop(d, k) == [x \in (DOMAIN d) \ {k} |-> d[x]]

\* Invite.uses is Optional[int]; NoUses stands for None
NoUses == -1
\* inv.uses or 0
UsesOr0(u) == IF u = NoUses \/ u = 0 THEN 0 ELSE u

RECURSIVE MapFrom(_, _)
MapFrom(invites, i) ==
    IF i > Len(invites) THEN EmptyMap
    ELSE LET rest == MapFrom(invites, i + 1)
         IN  IF invites[i].code \in DOMAIN rest THEN rest
             ELSE Put(rest, invites[i].code, UsesOr0(invites[i].uses))
\* {inv.code: (inv.uses or 0) for inv in invites}; a later entry wins
MapOf(invites) == MapFrom(invites, 1)

\* ------------------------------------------------------ attribution diff
\* the loop with >= in place of >
RECURSIVE ResolveFromGe(_, _, _)
ResolveFromGe(before, after, i) ==
    IF i > Len(after) THEN None
    ELSE IF UsesOr0(after[i].uses) >= Get(before, after[i].code, 0)
         THEN after[i].code
         ELSE ResolveFromGe(before, after, i + 1)
ResolveGe(before, after) == ResolveFromGe(before, after, 1)

\* the loop without break: the last increased invite
RECURSIVE ResolveFromLast(_, _, _)
ResolveFromLast(before, after, i) ==
    IF i < 1 THEN None
    ELSE IF UsesOr0(after[i].uses) > Get(before, after[i].code, 0)
         THEN after[i].code
         ELSE ResolveFromLast(before, after, i - 1)
ResolveLast(before, after) == ResolveFromLast(before, after, Len(after))

RECURSIVE ResolveFrom(_, _, _)
ResolveFrom(before, after, i) ==
    IF i > Len(after) THEN None
    ELSE IF UsesOr0(after[i].uses) > Get(before, after[i].code, 0)
         THEN after[i].code
         ELSE ResolveFrom(before, after, i + 1)
\* the for/break loop of on_member_join
Resolve(before, after) == ResolveFrom(before, after, 1)

\* ---------------------------------------------------------------- ledger
Row(g, u, n) == [guild_id |-> g, user_id |-> u, uses |-> n]

\* an upsert that resets the use count
UpsertResetUses(ui, g, u, c) == Put(ui, c, Row(g, u, 0))


\* INSERT ... VALUES (g, u, c, COALESCE((SELECT uses ...), 0))
\* ON CONFLICT(code) DO UPDATE SET user_id = excluded.user_id,
\*                                 guild_id = excluded.guild_id
add_or_upsert_invite_owner(ui, g, u, c) ==
    LET excluded == Row(g, u, IF c \in DOMAIN ui THEN ui[c].uses ELSE 0)
    IN  IF c \in DOMAIN ui
        THEN [ui EXCEPT ![c].user_id = excluded.user_id,
                        ![c].guild_id = excluded.guild_id]
        ELSE Put(ui, c, excluded)

\* UPDATE user_invites SET uses = uses + 1 WHERE guild_id=? AND code=?
SqlUpdateUses(ui, g, c) ==
    [k \in DOMAIN ui |->
        IF ui[k].guild_id = g /\ k = c
        THEN [ui[k] EXCEPT !.uses = @ + 1] ELSE ui[k]]

\* INSERT INTO join_events (guild_id, joined_user_id, inviter_code, ts);
\* the table is a bag of rows; the ts column (the clock) is left out
Event(g, m, c) == [guild_id |-> g, joined_user_id |-> m, inviter_code |-> c]
\* an INSERT that adds the row twice
SqlInsertTwice(je, g, m, c) ==
    je (+) SetToBag({Event(g, m, c)}) (+) SetToBag({Event(g, m, c)})
SqlInsertEvent(je, g, m, c) == je (+) SetToBag({Event(g, m, c)})

RECURSIVE SumUses(_, _)
SumUses(ui, codes) ==
    IF codes = {} THEN 0
    ELSE LET c == CHOOSE x \in codes : TRUE
         IN  ui[c].uses + SumUses(ui, codes \ {c})

\* a total without the guild_id condition
TotalAnyGuild(ui, g, u) ==
    SumUses(ui, {c \in DOMAIN ui : ui[c].user_id = u})

\* SELECT COALESCE(SUM(uses), 0) FROM user_invites
\* WHERE guild_id=? AND user_id=?
get_member_total_referrals(ui, g, u) ==
    SumUses(ui, {c \in DOMAIN ui : ui[c].guild_id = g /\ ui[c].user_id = u})

\* SELECT user_id FROM user_invites WHERE guild_id=? AND code=?
SelectInviter(ui, g, c) ==
    IF c \in DOMAIN ui /\ ui[c].guild_id = g THEN ui[c].user_id ELSE None

\* ---------------------------------------------------------- reward policy
\* The value of REFERRAL_REWARDS_JSON: kind "unset" (empty), "notjson"
\* (json.loads raises) or "object": data maps a guild key to an entry whose
\* mapping is threshold key -> role id; an entry is not valid when its
\* conversion {str(k): int(v)} raises.
RawUnset == [kind |-> "unset", data |-> EmptyMap]
RawNotJson == [kind |-> "notjson", data |-> EmptyMap]
RawObject(data) == [kind |-> "object", data |-> data]
Entry(valid, mapping) == [valid |-> valid, mapping |-> mapping]

\* one try/except around the whole loop: any failure returns {}
load_rewards_config(raw) ==
    IF raw.kind = "unset" THEN EmptyMap
    ELSE IF raw.kind = "notjson" THEN EmptyMap
    ELSE IF \E g \in DOMAIN raw.data : ~raw.data[g].valid THEN EmptyMap
    ELSE [g \in DOMAIN raw.data |-> raw.data[g].mapping]

RECURSIVE SortedInts(_)
\* sorted(int(t) for t in mapping.keys())
SortedInts(keys) ==
    IF keys = {} THEN <<>>
    ELSE LET k == CHOOSE x \in keys : \A y \in keys : IntOf[x] <= IntOf[y]
         IN  <<IntOf[k]>> \o SortedInts(keys \ {k})

RECURSIVE Filter(_, _, _)
\* [t for t in thresholds if t <= total_referrals]
Filter(thresholds, total, i) ==
    IF i > Len(thresholds) THEN <<>>
    ELSE (IF thresholds[i] <= total THEN <<thresholds[i]>> ELSE <<>>)
         \o Filter(thresholds, total, i + 1)

RECURSIVE MaxOf(_, _)
\* max(eligible)
MaxOf(s, i) ==
    IF i = Len(s) THEN s[i]
    ELSE LET r == MaxOf(s, i + 1) IN IF s[i] >= r THEN s[i] ELSE r

\* the result of next_award_roles_for: the returned pair, or the exception
\* raised by mapping[str(t)] when str(int(key)) is not a key of the mapping
Returned(role, eligible) ==
    [kind |-> "return", role |-> role, eligible |-> eligible]
Raised(e) == [kind |-> e, role |-> Nothing, eligible |-> <<>>]

next_award_roles_for(rewards, guild_id, total_referrals) ==
    LET gk == StrOf(guild_id)
        mapping == IF gk \in DOMAIN rewards THEN rewards[gk] ELSE EmptyMap
    IN  IF DOMAIN mapping = {} THEN Returned(Nothing, <<>>)
        ELSE LET thresholds == SortedInts(DOMAIN mapping)
                 eligible == Filter(thresholds, total_referrals, 1)
             IN  IF eligible = <<>> THEN Returned(Nothing, <<>>)
                 ELSE LET best == MaxOf(eligible, 1)
                      IN  IF StrOf(best) \notin DOMAIN mapping
                             \/ \E i \in 1..Len(eligible) :
                                   StrOf(eligible[i]) \notin DOMAIN mapping
                          THEN Raised("KeyError")
                          ELSE Returned(Some(mapping[StrOf(best)]),
                                 [i \in 1..Len(eligible) |->
                                     mapping[StrOf(eligible[i])]])

\* ------------------------------------------------------------------ state
VARIABLES
    plat,              \* platform: guild -> live invites, in listing order
    invites_cache,     \* guild id -> (code -> last seen uses); a dict
    user_invites,      \* committed table user_invites: code -> row
    join_events,       \* committed table join_events: a bag of rows
    tx,                \* the open write transaction of the database, if any
    task,              \* member -> the on_member_join task of that join
    refresh,           \* the refresh_guild_invites task in flight, if any
    cmd,               \* the create_*_invite command in flight, if any
    member_roles,      \* <<guild, user, role>>: roles the member holds
    env_rewards,       \* the value of REFERRAL_REWARDS_JSON
    REFERRAL_REWARDS,  \* the loaded reward configuration
    cache_writer,      \* history: guild -> what wrote invites_cache[guild]
                       \* last: "none", "event" (on_invite_create/delete),
                       \* "command", "refresh" (fetched list), "forbidden"
                       \* (emptied by refresh), "join" (on_member_join)
    issued,            \* the codes the platform has issued so far
    ops,               \* invite creations, deletions and refreshes so far
    arg,               \* the input of a function, or the last ledger call
    res                \* the function's result, or the table before the call

vars == <<plat, invites_cache, user_invites, join_events, tx, task, refresh,
          cmd, member_roles, env_rewards, REFERRAL_REWARDS, cache_writer,
          issued, ops, arg, res>>

\* groups for UNCHANGED
ledger == <<user_invites, join_events, tx>>
config == <<env_rewards, REFERRAL_REWARDS>>
budget == <<issued, ops>>
pure == <<arg, res>>

Invite(c, n) == [code |-> c, uses |-> n]

\* via: the code the member really joined through (not known to the bot)
IdleTask == [pc |-> "none", guild |-> 0, via |-> None, before |-> EmptyMap,
             used_code |-> None, inviter |-> None, role |-> Nothing]

\* REFERRAL_REWARDS_JSON of the runs: guild 1 rewards 1 and 2 referrals
MainRawConfig ==
    RawObject([g \in {"1"} |->
        Entry(TRUE, [k \in {"1", "2"} |->
                        IF k = "1" THEN "roleX" ELSE "roleY"])])

\* the process right after start: empty cache (line 67), empty tables
\* (init_db), configuration loaded once (line 94)
InitProgram ==
    /\ plat = [g \in Guilds |-> <<>>]
    /\ invites_cache = EmptyMap
    /\ cache_writer = [g \in Guilds |-> "none"]
    /\ user_invites = EmptyMap
    /\ join_events = EmptyBag
    /\ tx = Nothing
    /\ task = [m \in Members |-> IdleTask]
    /\ refresh = Nothing
    /\ cmd = Nothing
    /\ member_roles = {}
    /\ env_rewards = MainRawConfig
    /\ REFERRAL_REWARDS = load_rewards_config(env_rewards)
    /\ issued = {}
    /\ ops = 0

Init ==
    /\ InitProgram
    /\ arg = Nothing
    /\ res = Nothing

LiveCodes(g) == {plat[g][i].code : i \in 1..Len(plat[g])}
AllLiveCodes == UNION {LiveCodes(g) : g \in Guilds}
IndexOf(g, c) == CHOOSE i \in 1..Len(plat[g]) : plat[g][i].code = c

RECURSIVE Without(_, _)
Without(invites, c) ==
    IF invites = <<>> THEN <<>>
    ELSE (IF Head(invites).code = c THEN <<>> ELSE <<Head(invites)>>)
         \o Without(Tail(invites), c)

\* invites_cache.setdefault(g, {}); invites_cache[g][code] = uses
CacheSet(cache, g, c, n) == Put(cache, g, Put(Get(cache, g, EmptyMap), c, n))

\* on_invite_create (no await): the gateway reports the new invite
on_invite_create(cache, g, c, uses) == CacheSet(cache, g, c, UsesOr0(uses))

\* The platform creates invite c in guild g, unused, and the gateway reports
\* it.  A code is issued once (codes are unique on the platform); the codes
\* being alike, they are issued in the order of CodeOrder.
CodeOrder == <<"A", "B">>
PlatformCreates(g, c) ==
    /\ ops < MaxOps
    /\ c \notin issued
    /\ \E i \in 1..Len(CodeOrder) :
          /\ CodeOrder[i] = c
          /\ \A j \in 1..(i - 1) : CodeOrder[j] \in issued
    /\ plat' = [plat EXCEPT ![g] = Append(@, Invite(c, 0))]
    /\ invites_cache' = on_invite_create(invites_cache, g, c, 0)
    /\ cache_writer' = [cache_writer EXCEPT ![g] = "event"]
    /\ issued' = issued \cup {c}
    /\ ops' = ops + 1

\* the users being alike, the first owner is the first of UserOrder
UserOrder == <<"u1", "u2">>
Owners == {user_invites[c].user_id : c \in DOMAIN user_invites}
             \cup {x.user : x \in cmd}

\* ------------------------------------------------------------- platform
\* A member joins guild g through live invite c, or through no listed
\* invite (vanity link); the gateway dispatches on_member_join.
PlatformJoin(g, c) ==
    /\ \E m \in Members : task[m].pc = "none"
    /\ c \in LiveCodes(g) \cup {Vanity}
    /\ LET m == CHOOSE x \in Members :
                   task[x].pc = "none"
                   /\ \A y \in Members : task[y].pc = "none" => x <= y
       IN  task' = [task EXCEPT ![m] = [IdleTask EXCEPT !.pc = "start",
                                                       !.guild = g,
                                                       !.via = c]]
    /\ plat' = IF c = Vanity THEN plat
               ELSE [plat EXCEPT ![g][IndexOf(g, c)].uses = @ + 1]
    /\ UNCHANGED <<invites_cache, cache_writer, ledger, refresh, cmd, member_roles, config,
                   budget, pure>>

\* an invite deletion that also deletes the invite's row
on_invite_delete_purges(g, c) ==
    /\ ops < MaxOps
    /\ c \in LiveCodes(g)
    /\ plat' = [plat EXCEPT ![g] = Without(@, c)]
    /\ invites_cache' =
          IF g \in DOMAIN invites_cache /\ c \in DOMAIN invites_cache[g]
          THEN [invites_cache EXCEPT ![g] = Pop(@, c)]
          ELSE invites_cache
    /\ cache_writer' =
          IF g \in DOMAIN invites_cache /\ c \in DOMAIN invites_cache[g]
          THEN [cache_writer EXCEPT ![g] = "event"]
          ELSE cache_writer
    /\ user_invites' = Pop(user_invites, c)
    /\ ops' = ops + 1
    /\ UNCHANGED <<join_events, tx, task, refresh, cmd, member_roles, config,
                   issued, pure>>

\* on_invite_delete: invite c of g is revoked or expires; no await
on_invite_delete(g, c) ==
    /\ ops < MaxOps
    /\ c \in LiveCodes(g)
    /\ plat' = [plat EXCEPT ![g] = Without(@, c)]
    /\ invites_cache' =
          IF g \in DOMAIN invites_cache /\ c \in DOMAIN invites_cache[g]
          THEN [invites_cache EXCEPT ![g] = Pop(@, c)]
          ELSE invites_cache
    /\ cache_writer' =
          IF g \in DOMAIN invites_cache /\ c \in DOMAIN invites_cache[g]
          THEN [cache_writer EXCEPT ![g] = "event"]
          ELSE cache_writer
    /\ ops' = ops + 1
    /\ UNCHANGED <<ledger, task, refresh, cmd, member_roles, config, issued,
                   pure>>

\* ------------------------------------------------ refresh_guild_invites
\* on_ready / on_guild_join call it.  await guild.invites(): the reply is
\* the list at that moment, Forbidden, or another error.
refresh_fetch(g) ==
    /\ ops < MaxOps
    /\ refresh = Nothing
    /\ \/ refresh' = Some([guild |-> g, pc |-> "ok", invites |-> plat[g]])
       \/ refresh' = Some([guild |-> g, pc |-> "forbidden", invites |-> <<>>])
       \/ refresh' = Some([guild |-> g, pc |-> "error", invites |-> <<>>])
    /\ ops' = ops + 1
    /\ UNCHANGED <<plat, invites_cache, cache_writer, ledger, task, cmd, member_roles,
                   config, issued, pure>>

\* a refresh that writes the fetched mapping to every cached guild
RefreshAllGuilds(cache, g, r) ==
    IF r.pc = "ok" THEN [x \in (DOMAIN cache) \cup {g} |-> MapOf(r.invites)]
    ELSE IF r.pc = "forbidden" THEN Put(cache, g, EmptyMap)
    ELSE cache

\* the cache after the task resumes with reply r (lines 72, 75, 78)
RefreshedCache(cache, g, r) ==
    IF r.pc = "ok" THEN Put(cache, g, MapOf(r.invites))
    ELSE IF r.pc = "forbidden" THEN Put(cache, g, EmptyMap)
    ELSE cache

refresh_resume ==
    /\ refresh # Nothing
    /\ invites_cache' = RefreshedCache(invites_cache, The(refresh).guild,
                                       The(refresh))
    /\ cache_writer' =
          IF The(refresh).pc = "error" THEN cache_writer
          ELSE [cache_writer EXCEPT ![The(refresh).guild] =
                   IF The(refresh).pc = "ok" THEN "refresh" ELSE "forbidden"]
    /\ refresh' = Nothing
    /\ UNCHANGED <<plat, ledger, task, cmd, member_roles, config, budget,
                   pure>>

\* ---------------------------------------------------------- on_member_join
\* a task that has ended keeps nothing but how it ended: "failed" (the
\* fetch failed), "unattributed" (no code resolved), "ungranted" (add_roles
\* failed), "done", or "raised" (an exception left the handler)
Finished(t, how) == [IdleTask EXCEPT !.pc = how]

\* line 177: before = invites_cache.get(guild.id, {}).copy(), then the task
\* waits for guild.invites()
on_member_join_start(m) ==
    /\ task[m].pc = "start"
    /\ task' = [task EXCEPT ![m].pc = "fetch",
                            ![m].before = Get(invites_cache, task[m].guild, EmptyMap)]
    /\ UNCHANGED <<plat, invites_cache, cache_writer, ledger, refresh, cmd, member_roles,
                   config, budget, pure>>

\* a failed fetch that empties the guild's mapping, as the refresh does
on_member_join_fetch_failed_clears(m) ==
    /\ task[m].pc = "fetch"
    /\ invites_cache' = Put(invites_cache, task[m].guild, EmptyMap)
    /\ cache_writer' = [cache_writer EXCEPT ![task[m].guild] = "forbidden"]
    /\ task' = [task EXCEPT ![m] = Finished(task[m], "failed")]
    /\ UNCHANGED <<plat, ledger, refresh, cmd, member_roles, config, budget,
                   pure>>

\* lines 178-185: guild.invites() raises Forbidden or another exception:
\* the handler logs and returns
on_member_join_fetch_failed(m) ==
    /\ task[m].pc = "fetch"
    /\ task' = [task EXCEPT ![m] = Finished(task[m], "failed")]
    /\ UNCHANGED <<plat, invites_cache, cache_writer, ledger, refresh, cmd, member_roles,
                   config, budget, pure>>

\* the resolve step with the cache replaced only when a code was resolved
on_member_join_resolve_keep(m) ==
    /\ task[m].pc = "fetch"
    /\ LET t == task[m]
           after_invites == plat[t.guild]
           used_code == Resolve(t.before, after_invites)
       IN  /\ invites_cache' =
                 IF used_code = None THEN invites_cache
                 ELSE Put(invites_cache, t.guild, MapOf(after_invites))
           /\ cache_writer' =
                 IF used_code = None THEN cache_writer
                 ELSE [cache_writer EXCEPT ![t.guild] = "join"]
           /\ task' = [task EXCEPT ![m] =
                          IF used_code = None THEN Finished(t, "unattributed")
                          ELSE [t EXCEPT !.pc = "update",
                                         !.before = EmptyMap,
                                         !.used_code = used_code]]
    /\ UNCHANGED <<plat, ledger, refresh, cmd, member_roles, config, budget,
                   pure>>

\* lines 179, 187-200: guild.invites() replies with the live list; the
\* diff, the cache replacement, and the return or the call of
\* increment_code_use
on_member_join_resolve(m) ==
    /\ task[m].pc = "fetch"
    /\ LET t == task[m]
           after_invites == plat[t.guild]
           used_code == Resolve(t.before, after_invites)
       IN  /\ invites_cache' = Put(invites_cache, t.guild, MapOf(after_invites))
           /\ cache_writer' = [cache_writer EXCEPT ![t.guild] = "join"]
           /\ task' = [task EXCEPT ![m] =
                          IF used_code = None THEN Finished(t, "unattributed")
                          ELSE [t EXCEPT !.pc = "update",
                                         !.before = EmptyMap,
                                         !.used_code = used_code]]
    /\ UNCHANGED <<plat, ledger, refresh, cmd, member_roles, config, budget,
                   pure>>

\* increment_code_use, line 131: the UPDATE opens the write transaction
\* (one writer at a time); its effect is not committed yet
increment_update(m) ==
    /\ task[m].pc = "update"
    /\ tx = Nothing
    /\ tx' = Some([owner |-> m,
                   ui |-> SqlUpdateUses(user_invites, task[m].guild,
                                        task[m].used_code),
                   je |-> join_events])
    /\ task' = [task EXCEPT ![m].pc = "insert"]
    /\ UNCHANGED <<plat, invites_cache, cache_writer, user_invites, join_events, refresh,
                   cmd, member_roles, config, budget, pure>>

\* line 135: the INSERT, in the same transaction
increment_insert(m) ==
    /\ task[m].pc = "insert"
    /\ tx # Nothing /\ The(tx).owner = m
    /\ tx' = Some([The(tx) EXCEPT
                      !.je = SqlInsertEvent(@, task[m].guild, m,
                                            task[m].used_code)])
    /\ task' = [task EXCEPT ![m].pc = "commit"]
    /\ UNCHANGED <<plat, invites_cache, cache_writer, user_invites, join_events, refresh,
                   cmd, member_roles, config, budget, pure>>

\* line 139: db.commit() makes both statements' effects the committed state
increment_commit(m) ==
    /\ task[m].pc = "commit"
    /\ tx # Nothing /\ The(tx).owner = m
    /\ user_invites' = The(tx).ui
    /\ join_events' = The(tx).je
    /\ tx' = Nothing
    /\ task' = [task EXCEPT ![m].pc = "lookup"]
    /\ UNCHANGED <<plat, invites_cache, cache_writer, refresh, cmd, member_roles, config,
                   budget, pure>>

\* a storage failure (I/O error, database locked, crash of the statement)
\* anywhere in increment_code_use: the connection closes without commit,
\* the exception leaves on_member_join
increment_fail(m) ==
    /\ task[m].pc \in {"update", "insert", "commit"}
    /\ tx' = IF tx # Nothing /\ The(tx).owner = m THEN Nothing ELSE tx
    /\ task' = [task EXCEPT ![m] = Finished(task[m], "raised")]
    /\ UNCHANGED <<plat, invites_cache, cache_writer, user_invites, join_events, refresh,
                   cmd, member_roles, config, budget, pure>>

\* the reward step without the check of line 220
evaluate_reward_unchecked(m) ==
    /\ task[m].pc = "lookup"
    /\ \E present \in BOOLEAN :
         LET t == task[m]
             inviter == SelectInviter(user_invites, t.guild, t.used_code)
             total == get_member_total_referrals(user_invites, t.guild, inviter)
             award == next_award_roles_for(REFERRAL_REWARDS, t.guild, total)
         IN  task' = [task EXCEPT ![m] =
                IF inviter = None THEN Finished(t, "done")
                ELSE IF award.kind # "return" THEN Finished(t, "raised")
                ELSE IF award.role = Nothing \/ ~present THEN Finished(t, "done")
                ELSE [t EXCEPT !.pc = "grant", !.inviter = inviter,
                               !.role = award.role]]
    /\ UNCHANGED <<plat, invites_cache, cache_writer, ledger, refresh, cmd,
                   member_roles, config, budget, pure>>

\* lines 202-221: SELECT user_id of the used code, the owner's total, the
\* reward tier, the role check; add_roles is called when the role is not
\* held.  present: guild.get_role and guild.get_member found their object.
\* The two SELECTs are taken to read the same committed tables.
evaluate_reward(m) ==
    /\ task[m].pc = "lookup"
    /\ \E present \in BOOLEAN :
         LET t == task[m]
             inviter == SelectInviter(user_invites, t.guild, t.used_code)
             total == get_member_total_referrals(user_invites, t.guild, inviter)
             award == next_award_roles_for(REFERRAL_REWARDS, t.guild, total)
         IN  task' = [task EXCEPT ![m] =
                IF inviter = None THEN Finished(t, "done")
                ELSE IF award.kind # "return" THEN Finished(t, "raised")
                ELSE IF award.role = Nothing \/ ~present THEN Finished(t, "done")
                ELSE IF <<t.guild, inviter, The(award.role)>> \in member_roles
                     THEN Finished(t, "done")
                ELSE [t EXCEPT !.pc = "grant", !.inviter = inviter,
                               !.role = award.role]]
    /\ UNCHANGED <<plat, invites_cache, cache_writer, ledger, refresh, cmd, member_roles,
                   config, budget, pure>>

\* lines 221-226: add_roles succeeds
grant_reply(m) ==
    /\ task[m].pc = "grant"
    /\ member_roles' = member_roles \cup
                          {<<task[m].guild, task[m].inviter, The(task[m].role)>>}
    /\ task' = [task EXCEPT ![m] = Finished(task[m], "done")]
    /\ UNCHANGED <<plat, invites_cache, cache_writer, ledger, refresh, cmd, config, budget,
                   pure>>

\* a failed grant that takes the join back out of the ledger
grant_failed_rollback(m) ==
    /\ task[m].pc = "grant"
    /\ join_events' = join_events
                         (-) SetToBag({Event(task[m].guild, m, task[m].used_code)})
    /\ user_invites' =
          [k \in DOMAIN user_invites |->
              IF k = task[m].used_code /\ user_invites[k].uses > 0
              THEN [user_invites[k] EXCEPT !.uses = @ - 1]
              ELSE user_invites[k]]
    /\ task' = [task EXCEPT ![m] = Finished(task[m], "ungranted")]
    /\ UNCHANGED <<plat, invites_cache, cache_writer, tx, refresh, cmd,
                   member_roles, config, budget, pure>>

\* lines 223-226: add_roles raises Forbidden or another exception, which is
\* caught and logged
grant_failed(m) ==
    /\ task[m].pc = "grant"
    /\ task' = [task EXCEPT ![m] = Finished(task[m], "ungranted")]
    /\ UNCHANGED <<plat, invites_cache, cache_writer, ledger, refresh, cmd, member_roles,
                   config, budget, pure>>

\* ------------------------------------------------------- slash commands
\* create_personal_invite, line 259: channel.create_invite succeeded
create_personal_invite(g, u, c) ==
    /\ cmd = Nothing
    /\ \E i \in 1..Len(UserOrder) :
          /\ UserOrder[i] = u
          /\ \A j \in 1..(i - 1) : UserOrder[j] \in Owners
    /\ PlatformCreates(g, c)
    /\ cmd' = Some([name |-> "personal", guild |-> g, user |-> u, code |-> c])
    /\ UNCHANGED <<ledger, task, refresh, member_roles, config, pure>>

\* lines 271-273: add_or_upsert_invite_owner (one statement and its commit),
\* then the cache entry with the use count of the object create_invite
\* returned
create_personal_invite_upsert ==
    /\ cmd # Nothing /\ The(cmd).name = "personal"
    /\ tx = Nothing
    /\ user_invites' = add_or_upsert_invite_owner(user_invites, The(cmd).guild,
                                                  The(cmd).user, The(cmd).code)
    /\ invites_cache' = CacheSet(invites_cache, The(cmd).guild, The(cmd).code,
                                 UsesOr0(0))
    /\ cache_writer' = [cache_writer EXCEPT ![The(cmd).guild] = "command"]
    /\ cmd' = Nothing
    /\ UNCHANGED <<plat, join_events, tx, task, refresh, member_roles, config,
                   budget, pure>>

\* a storage failure in add_or_upsert_invite_owner ends the command
create_personal_invite_fail ==
    /\ cmd # Nothing /\ The(cmd).name = "personal"
    /\ cmd' = Nothing
    /\ UNCHANGED <<plat, invites_cache, cache_writer, ledger, task, refresh, member_roles,
                   config, budget, pure>>

\* create_public_invite, line 336: channel.create_invite succeeded; no row
create_public_invite(g, c) ==
    /\ cmd = Nothing
    /\ PlatformCreates(g, c)
    /\ cmd' = Some([name |-> "public", guild |-> g, user |-> None, code |-> c])
    /\ UNCHANGED <<ledger, task, refresh, member_roles, config, pure>>

\* lines 347-348: the cache entry of the public invite
create_public_invite_cache ==
    /\ cmd # Nothing /\ The(cmd).name = "public"
    /\ invites_cache' = CacheSet(invites_cache, The(cmd).guild, The(cmd).code,
                                 UsesOr0(0))
    /\ cache_writer' = [cache_writer EXCEPT ![The(cmd).guild] = "command"]
    /\ cmd' = Nothing
    /\ UNCHANGED <<plat, ledger, task, refresh, member_roles, config, budget,
                   pure>>

\* reload_rewards, line 358
reload_rewards ==
    /\ REFERRAL_REWARDS' = load_rewards_config(env_rewards)
    /\ UNCHANGED <<plat, invites_cache, cache_writer, ledger, task, refresh, cmd,
                   member_roles, env_rewards, budget, pure>>

Next ==
    \/ \E g \in Guilds, c \in Codes \cup {Vanity} : PlatformJoin(g, c)
    \/ \E g \in Guilds, c \in Codes : on_invite_delete(g, c)
    \/ \E g \in Guilds : refresh_fetch(g)
    \/ refresh_resume
    \/ \E m \in Members : on_member_join_start(m)
    \/ \E m \in Members : on_member_join_fetch_failed(m)
    \/ \E m \in Members : on_member_join_resolve(m)
    \/ \E m \in Members : increment_update(m)
    \/ \E m \in Members : increment_insert(m)
    \/ \E m \in Members : increment_commit(m)
    \/ \E m \in Members : increment_fail(m)
    \/ \E m \in Members : evaluate_reward(m)
    \/ \E m \in Members : grant_reply(m)
    \/ \E m \in Members : grant_failed(m)
    \/ \E g \in InviteGuilds, u \in Users, c \in Codes :
          create_personal_invite(g, u, c)
    \/ create_personal_invite_upsert
    \/ create_personal_invite_fail
    \/ \E g \in InviteGuilds, c \in Codes : create_public_invite(g, c)
    \/ create_public_invite_cache
    \/ reload_rewards

Spec == Init /\ [][Next]_vars

\* ==================================================== the attribution diff
\* The diff of on_member_join as a function of its two inputs: arg holds a
\* before snapshot and a fetched list, res the code the loop resolves.
ResolveCodes == {"A", "B", "C"}
BeforeUses == {2, 5}
AfterUses == {NoUses, 0, 3, 5}
\* lists of at most MaxAfter invites
MaxAfter == 3
BeforeMaps ==
    UNION {[d -> BeforeUses] : d \in SUBSET ResolveCodes}
AfterLists ==
    UNION {{a \in [1..n -> [code : ResolveCodes, uses : AfterUses]] :
               \A i, j \in 1..n : i # j => a[i].code # a[j].code} :
           n \in 0..MaxAfter}

InitResolve ==
    /\ InitProgram
    /\ arg \in {Some([before |-> b, after |-> a]) :
                   b \in BeforeMaps, a \in AfterLists}
    /\ res = Nothing

\* lines 187-192 on the input
ApplyResolve ==
    /\ arg # Nothing /\ res = Nothing
    /\ res' = Some(Resolve(The(arg).before, The(arg).after))
    /\ UNCHANGED <<plat, invites_cache, cache_writer, ledger, task, refresh, cmd,
                   member_roles, config, budget, arg>>

NextResolve == ApplyResolve

SpecResolve == InitResolve /\ [][NextResolve]_vars

\* the invite at position i of list a shows more uses than b records for its
\* code, a code missing from b counting as 0 and a missing use count as 0
Increased(b, a, i) ==
    (IF a[i].uses = NoUses THEN 0 ELSE a[i].uses)
       > (IF a[i].code \in DOMAIN b THEN b[a[i].code] ELSE 0)

\* C4: the resolved code is the code of the first invite, in list order,
\* whose use count is strictly greater than the before count of its code
\* (missing = 0); no code is resolved exactly when no invite increased.
C4_FirstStrictIncrease ==
    \A x \in arg, r \in res :
        LET a == x.after
            b == x.before
        IN  /\ (r = None) <=> (\A i \in 1..Len(a) : ~Increased(b, a, i))
            /\ r # None =>
                 \E i \in 1..Len(a) :
                    /\ a[i].code = r
                    /\ Increased(b, a, i)
                    /\ \A j \in 1..(i - 1) : ~Increased(b, a, j)

\* C4 witness: before {A:5, B:2}, after [(A,5), (B,3)] resolved to B
C4_Witness_Example ==
    /\ arg = Some([before |-> [c \in {"A", "B"} |-> IF c = "A" THEN 5 ELSE 2],
                   after |-> <<Invite("A", 5), Invite("B", 3)>>])
    /\ res = Some("B")

\* several codes increased: the earliest in list order is chosen
C4_Witness_Earliest ==
    /\ arg = Some([before |-> [c \in {"A", "B"} |-> IF c = "A" THEN 5 ELSE 2],
                   after |-> <<Invite("C", 3), Invite("A", 5), Invite("B", 3)>>])
    /\ res = Some("C")

\* ======================================================= the reward policy
\* next_award_roles_for as a function: arg holds a loaded configuration, a
\* guild id and a total, res what the call returns or raises.
\* totals 0..MaxTotal
MaxTotal == 10
RewardMappings == UNION {[d -> Roles] : d \in SUBSET ThresholdKeys}
RewardConfigs ==
    {EmptyMap} \cup {[g \in {"1"} |-> mp] : mp \in RewardMappings}

InitReward ==
    /\ InitProgram
    /\ arg \in {Some([rewards |-> rw, guild_id |-> g, total |-> n]) :
                   rw \in RewardConfigs, g \in Guilds, n \in 0..MaxTotal}
    /\ res = Nothing

\* lines 96-105 on the input
ApplyReward ==
    /\ arg # Nothing /\ res = Nothing
    /\ res' = Some(next_award_roles_for(The(arg).rewards, The(arg).guild_id,
                                        The(arg).total))
    /\ UNCHANGED <<plat, invites_cache, cache_writer, ledger, task, refresh, cmd,
                   member_roles, config, budget, arg>>

NextReward == ApplyReward

SpecReward == InitReward /\ [][NextReward]_vars

\* the threshold -> role mapping of guild g in configuration rw
MappingOf(rw, g) ==
    IF g = 1 /\ "1" \in DOMAIN rw THEN rw["1"] ELSE EmptyMap

\* C9: nextRole returns none when no threshold of the community is <= total
\* (or it has no mapping), and otherwise the role mapped to the maximum
\* threshold that is <= total.
C9_MaxThresholdRole ==
    \A x \in arg, r \in res :
        LET mp == MappingOf(x.rewards, x.guild_id)
            reached == {k \in DOMAIN mp : IntOf[k] <= x.total}
        IN  /\ r.kind = "return"
            /\ reached = {} => r.role = Nothing
            /\ reached # {} =>
                 \E k \in reached :
                    /\ \A j \in reached : IntOf[j] <= IntOf[k]
                    /\ r.role = Some(mp[k])

\* ========================================================== the ledger API
\* Any sequence of add_or_upsert_invite_owner and increment_code_use calls,
\* each run to its commit: arg holds the last call, res the user_invites
\* table as it was before that call.  A code may be registered again (the
\* platform re-issuing it) with another owner or guild.

\* increment_code_use, lines 129-139, when the commit succeeds
increment_code_use(ui, je, g, c, m) ==
    [ui |-> SqlUpdateUses(ui, g, c), je |-> SqlInsertEvent(je, g, m, c)]

Recorded(je) == {e.joined_user_id : e \in BagToSet(je)}

registerOwnership(g, u, c) ==
    /\ arg' = Some([op |-> "register", guild |-> g, user |-> u, code |-> c])
    /\ res' = Some(user_invites)
    /\ user_invites' = add_or_upsert_invite_owner(user_invites, g, u, c)
    /\ UNCHANGED <<plat, invites_cache, cache_writer, join_events, tx, task, refresh, cmd,
                   member_roles, config, budget>>

\* one recorded join per member of Members
recordUse(g, c, m) ==
    /\ m \notin Recorded(join_events)
    /\ arg' = Some([op |-> "record", guild |-> g, user |-> None, code |-> c])
    /\ res' = Some(user_invites)
    /\ LET done == increment_code_use(user_invites, join_events, g, c, m)
       IN  /\ user_invites' = done.ui
           /\ join_events' = done.je
    /\ UNCHANGED <<plat, invites_cache, cache_writer, tx, task, refresh, cmd, member_roles,
                   config, budget>>

NextLedger ==
    \/ \E g \in Guilds, u \in Users, c \in Codes : registerOwnership(g, u, c)
    \/ \E g \in Guilds, c \in Codes, m \in Members : recordUse(g, c, m)

SpecLedger == Init /\ [][NextLedger]_vars

\* the rows of table ui owned by user u in guild g
OwnedRows(ui, g, u) ==
    {c \in DOMAIN ui : ui[c].guild_id = g /\ ui[c].user_id = u}

\* C2: after any sequence of registerOwnership and recordUse calls, for
\* every community and user, totalReferrals is the sum of uses over the
\* rows the user currently owns in that community (counted here as the
\* number of pairs <<row, k>> with 1 <= k <= uses), 0 with no such row.
C2_TotalIsSumOfOwnedUses ==
    \A g \in Guilds, u \in Users :
        /\ get_member_total_referrals(user_invites, g, u)
              = Cardinality(UNION {{<<c, k>> : k \in 1..user_invites[c].uses} :
                                      c \in OwnedRows(user_invites, g, u)})
        /\ OwnedRows(user_invites, g, u) = {}
              => get_member_total_referrals(user_invites, g, u) = 0

\* C2 witness: u1 owns two used rows in guild 1 (total 2) and none in guild 2
C2_Witness_TwoRows ==
    /\ OwnedRows(user_invites, 1, "u1") = {"A", "B"}
    /\ user_invites["A"].uses = 1 /\ user_invites["B"].uses = 1
    /\ get_member_total_referrals(user_invites, 1, "u1") = 2
    /\ get_member_total_referrals(user_invites, 2, "u1") = 0

\* C3: registerOwnership of an existing code sets owner and community to
\* the new values and keeps uses; of a new code inserts it with uses 0; no
\* other row changes; the same call again changes nothing.
C3_IdempotentUpsert ==
    \A x \in arg, prev \in res :
        x.op = "register" =>
          /\ DOMAIN user_invites = DOMAIN prev \cup {x.code}
          /\ user_invites[x.code].guild_id = x.guild
          /\ user_invites[x.code].user_id = x.user
          /\ user_invites[x.code].uses =
                (IF x.code \in DOMAIN prev THEN prev[x.code].uses ELSE 0)
          /\ \A c \in DOMAIN prev : c # x.code => user_invites[c] = prev[c]
          /\ add_or_upsert_invite_owner(user_invites, x.guild, x.user, x.code)
                = user_invites

\* C3 witness: code A, used once under u1 in guild 1, registered again for
\* u2 in guild 2
C3_Witness_Reregistered ==
    /\ arg = Some([op |-> "register", guild |-> 2, user |-> "u2", code |-> "A"])
    /\ \E prev \in res : "A" \in DOMAIN prev /\ prev["A"] = Row(1, "u1", 1)
    /\ user_invites["A"] = Row(2, "u2", 1)

\* ============================================== properties of the program
\* the number of rows of join_events whose inviter_code is c
EventCount(c) ==
    Cardinality(UNION {{<<e, k>> : k \in 1..CopiesIn(e, join_events)} :
                          e \in {x \in BagToSet(join_events) :
                                    x.inviter_code = c}})
\* the persisted use count of code c; 0 when c has no row
PersistedUses(c) ==
    IF c \in DOMAIN user_invites THEN user_invites[c].uses ELSE 0
\* the number of times live code c of guild g was used on the platform
PlatUses(g, c) == plat[g][IndexOf(g, c)].uses

\* C1 as stated: under every interleaving of join handlers, no code has
\* more Join Events than it has uses on the platform (no join is counted
\* twice, none is credited in place of another).
C1_NoDoubleCountNoLostJoin ==
    \A g \in Guilds : \A c \in LiveCodes(g) : EventCount(c) <= PlatUses(g, c)

\* C1, what holds under interleaving: every join handler records at most
\* one Join Event, the row names that join's member and an issued code, and
\* it is there only once the handler's increment_code_use has committed.
C1_AtMostOneEventPerJoin ==
    \A e \in BagToSet(join_events) :
        /\ CopiesIn(e, join_events) = 1
        /\ e.inviter_code \in issued
        /\ task[e.joined_user_id].pc
              \in {"lookup", "grant", "done", "ungranted", "raised"}
        /\ \A f \in BagToSet(join_events) :
              f.joined_user_id = e.joined_user_id => f = e

\* C1 witness: two joins through two codes, both recorded for the same
\* code, which has one use on the platform; the other code has no event
C1_Witness_BothCreditedToOne ==
    \E g \in Guilds : \E c, d \in LiveCodes(g) :
        /\ c # d
        /\ PlatUses(g, c) = 1 /\ PlatUses(g, d) = 1
        /\ EventCount(c) = 2 /\ EventCount(d) = 0

\* C5: when the fetched list shows no code above its before count, the
\* handler resolves no code (it ends unattributed), no row and no Join
\* Event changes in that step, and an unattributed handler stays so and has
\* no Join Event.
C5_NoIncreaseNoRecord ==
    [][\A m \in Members :
          /\ (/\ task[m].pc = "fetch"
              /\ task'[m].pc \notin {"fetch", "failed"}
              /\ \A i \in 1..Len(plat[task[m].guild]) :
                    ~Increased(task[m].before, plat[task[m].guild], i))
             => /\ task'[m].pc = "unattributed"
                /\ task'[m].used_code = None
                /\ UNCHANGED <<user_invites, join_events, tx>>
          /\ task[m].pc = "unattributed" => task'[m].pc = "unattributed"
          /\ task'[m].pc = "unattributed"
             => /\ m \notin Recorded(join_events')
                /\ \A x \in tx' : x.owner # m]_vars

\* C5 witness: a handler ended unattributed while an invite is live and
\* registered, and no Join Event names its member
C5_Witness_Unattributed ==
    \E m \in Members :
        /\ task[m].pc = "unattributed"
        /\ \E c \in AllLiveCodes : c \in DOMAIN user_invites
        /\ m \notin Recorded(join_events)

\* C6: every step that changes the committed ledger either persists both
\* the +1 on one row and one new Join Event row, or neither.
C6_IncrementAndEventTogether ==
    [][(\E c \in DOMAIN user_invites :
            /\ c \in DOMAIN user_invites'
            /\ user_invites'[c].uses # user_invites[c].uses)
       <=> join_events' # join_events]_vars

\* C7: for every code the persisted use count (0 without a row) is at least
\* the number of Join Events whose inviter code is that code.
C7_UsesAtLeastEvents ==
    \A c \in Codes : PersistedUses(c) >= EventCount(c)

\* C8: a join resolved to a code that has no row in user_invites creates no
\* row and appends no Join Event.
C8_UnregisteredNotRecorded ==
    [][\A m \in Members :
          (/\ task[m].pc = "commit" /\ task'[m].pc = "lookup"
           /\ task[m].used_code \notin DOMAIN user_invites)
          => /\ join_events' = join_events
             /\ user_invites' = user_invites]_vars

\* C10: when refresh_guild_invites resumes, the guild's cached mapping is
\* exactly code -> uses of the fetched list after a successful fetch and
\* empty after Forbidden, and no other guild's mapping changes.
C10_RefreshReplacesOwnGuildOnly ==
    [][(refresh # Nothing /\ refresh' = Nothing) =>
          LET r == The(refresh)
              g == r.guild
          IN  /\ r.pc = "ok" =>
                   /\ g \in DOMAIN invites_cache'
                   /\ DOMAIN invites_cache'[g]
                         = {r.invites[i].code : i \in 1..Len(r.invites)}
                   /\ \A i \in 1..Len(r.invites) :
                         invites_cache'[g][r.invites[i].code] = r.invites[i].uses
              /\ r.pc = "forbidden" =>
                   /\ g \in DOMAIN invites_cache'
                   /\ DOMAIN invites_cache'[g] = {}
              /\ \A h \in Guilds \ {g} :
                   /\ h \in DOMAIN invites_cache' <=> h \in DOMAIN invites_cache
                   /\ h \in DOMAIN invites_cache
                         => invites_cache'[h] = invites_cache[h]]_vars

\* C10 witness: no handler or command has run since a refresh left guild
\* 1 with an empty mapping although it has a live invite, and guild 2 has a
\* mapping of its own
C10_Witness_EmptiedByRefresh ==
    /\ refresh = Nothing /\ cmd = Nothing
    /\ \A m \in Members : task[m].pc = "none"
    /\ 1 \in DOMAIN invites_cache /\ DOMAIN invites_cache[1] = {}
    /\ LiveCodes(1) # {}
    /\ 2 \in DOMAIN invites_cache

\* C11: after a refresh of a guild ended with Forbidden and emptied its
\* mapping, and nothing has written the mapping since, a join handler of
\* that guild attributes no join: it resolves no code.
C11_DegradedNotAttributed ==
    [][\A m \in Members :
          (/\ task[m].pc = "fetch"
           /\ task'[m].pc \notin {"fetch", "failed"}
           /\ cache_writer[task[m].guild] = "forbidden"
           /\ DOMAIN task[m].before = {})
          => task'[m].pc = "unattributed"]_vars

\* C12: add_roles is called only for a role that is not in the inviter's
\* role set at the time of the call: whenever a handler goes on to the
\* grant, the role it asks for is not held.
C12_GrantOnlyIfNotHeld ==
    [][\A m \in Members :
          (task[m].pc # "grant" /\ task'[m].pc = "grant")
          => <<task'[m].guild, task'[m].inviter, The(task'[m].role)>>
                \notin member_roles]_vars

\* C12 witness: two joins recorded for invites of u1 (total 2, tier roleY);
\* the first handler's grant of roleY has been made and the second handler
\* is about to evaluate the same tier
C12_Witness_SameTierHeld ==
    /\ task[1].pc = "done" /\ task[2].pc = "lookup"
    /\ Recorded(join_events) = {1, 2}
    /\ get_member_total_referrals(user_invites, 1, "u1") = 2
    /\ member_roles = {<<1, "u1", "roleY">>}

\* ================================================ the configuration loader
\* load_rewards_config as a function of the value of REFERRAL_REWARDS_JSON
\* (the initial load of line 94 and every reload_rewards): arg holds the
\* value, res the loaded configuration.
ConfigKeys == {"1", "5", "10"}
ConfigMappings == UNION {[d -> Roles] : d \in SUBSET ConfigKeys}
ConfigEntries ==
    {Entry(FALSE, EmptyMap)} \cup {Entry(TRUE, mp) : mp \in ConfigMappings}
RawConfigs ==
    {RawUnset, RawNotJson}
       \cup {RawObject(d) : d \in UNION {[gs -> ConfigEntries] :
                                             gs \in SUBSET {"1", "2"}}}

InitConfig ==
    /\ InitProgram
    /\ arg \in {Some(raw) : raw \in RawConfigs}
    /\ res = Nothing

\* lines 81-92 on the input
ApplyLoad ==
    /\ arg # Nothing /\ res = Nothing
    /\ res' = Some(load_rewards_config(The(arg)))
    /\ UNCHANGED <<plat, invites_cache, cache_writer, ledger, task, refresh,
                   cmd, member_roles, config, budget, arg>>

NextConfig == ApplyLoad

SpecConfig == InitConfig /\ [][NextConfig]_vars

\* C13: after a (re)load of a configuration object, every community whose
\* entry is valid has its mapping in effect, and only the communities whose
\* entry is invalid are dropped.
C13_InvalidEntryDropsOnlyItself ==
    \A x \in arg, r \in res :
        x.kind = "object" =>
           \A g \in DOMAIN x.data :
              /\ x.data[g].valid => (g \in DOMAIN r /\ r[g] = x.data[g].mapping)
              /\ ~x.data[g].valid => g \notin DOMAIN r

\* ========================================================= the leaderboard
\* The query of top_referrals as a function of the user_invites table, the
\* guild and the limit: arg holds the three, res the rows fetched.  Rows of
\* equal total come in any order (the query orders by total only).
LbCodes == {"A", "B", "C"}
LbUsers == {"u1", "u2", "u3"}
LbUses == {0, 10, 25}
\* limits 1..MaxLimit
MaxLimit == 3
LbTables ==
    UNION {[d -> [guild_id : Guilds, user_id : LbUsers, uses : LbUses]] :
              d \in SUBSET LbCodes}

\* GROUP BY user_id over the rows WHERE guild_id = g, with SUM(uses)
LeaderboardGroups(ui, g) ==
    {[user_id |-> u, total |-> get_member_total_referrals(ui, g, u)] :
        u \in {ui[c].user_id : c \in {k \in DOMAIN ui : ui[k].guild_id = g}}}

\* a leaderboard ordered by ascending total
top_referrals_ascending(ui, g, limit) ==
    LET groups == LeaderboardGroups(ui, g)
        n == Cardinality(groups)
    IN  {SubSeq(s, 1, IF limit < n THEN limit ELSE n) :
            s \in {q \in [1..n -> groups] :
                      /\ \A i, j \in 1..n : i # j => q[i] # q[j]
                      /\ \A i, j \in 1..n : i < j => q[i].total <= q[j].total}}

\* ORDER BY total DESC LIMIT ?: the row lists the query may return
top_referrals(ui, g, limit) ==
    LET groups == LeaderboardGroups(ui, g)
        n == Cardinality(groups)
    IN  {SubSeq(s, 1, IF limit < n THEN limit ELSE n) :
            s \in {q \in [1..n -> groups] :
                      /\ \A i, j \in 1..n : i # j => q[i] # q[j]
                      /\ \A i, j \in 1..n : i < j => q[i].total >= q[j].total}}

InitLeaderboard ==
    /\ InitProgram
    /\ arg \in {Some([table |-> t, guild |-> g, limit |-> n]) :
                   t \in LbTables, g \in Guilds, n \in 1..MaxLimit}
    /\ res = Nothing

\* lines 291-303 on the input
ApplyLeaderboard ==
    /\ arg # Nothing /\ res = Nothing
    /\ \E rows \in top_referrals(The(arg).table, The(arg).guild, The(arg).limit) :
          res' = Some(rows)
    /\ UNCHANGED <<plat, invites_cache, cache_writer, ledger, task, refresh,
                   cmd, member_roles, config, budget, arg>>

NextLeaderboard == ApplyLeaderboard

SpecLeaderboard == InitLeaderboard /\ [][NextLeaderboard]_vars

\* the sum of uses of the rows of user u in guild g, counted as pairs
UsesOwned(ui, g, u) ==
    Cardinality(UNION {{<<c, k>> : k \in 1..ui[c].uses} :
                          c \in OwnedRows(ui, g, u)})

\* C14: the leaderboard has at most limit rows, one per user, each a user
\* with an invite in the guild and the sum of uses of that user's invites
\* there; totals do not increase along the list; and no user of the guild
\* left out has a total greater than a listed one.
C14_LeaderboardTopTotals ==
    \A x \in arg, r \in res :
        /\ Len(r) <= x.limit
        /\ \A i \in 1..Len(r) :
              /\ OwnedRows(x.table, x.guild, r[i].user_id) # {}
              /\ r[i].total = UsesOwned(x.table, x.guild, r[i].user_id)
        /\ \A i, j \in 1..Len(r) : i < j =>
              /\ r[i].total >= r[j].total
              /\ r[i].user_id # r[j].user_id
        /\ \A u \in LbUsers :
              (/\ OwnedRows(x.table, x.guild, u) # {}
               /\ \A i \in 1..Len(r) : r[i].user_id # u)
              => \A i \in 1..Len(r) :
                    UsesOwned(x.table, x.guild, u) <= r[i].total

\* C14 witness: totals {u1:10, u2:25, u3:25} in guild 1 and limit 2: the
\* two users with 25 are listed, u3 first, and u1 is left out
C14_Witness_TieAtTheTop ==
    /\ \E x \in arg :
          /\ x.guild = 1 /\ x.limit = 2
          /\ DOMAIN x.table = LbCodes
          /\ x.table["A"] = Row(1, "u1", 10)
          /\ x.table["B"] = Row(1, "u2", 25)
          /\ x.table["C"] = Row(1, "u3", 25)
    /\ res = Some(<<[user_id |-> "u3", total |-> 25],
                    [user_id |-> "u2", total |-> 25]>>)

\* C15: the step in which a handler's fetch succeeds leaves the guild's
\* cached mapping equal to code -> uses of the fetched list, with or
\* without a resolved code, and makes no ledger call: the ledger and the
\* open transaction are as before, so the calls come after.
C15_CacheReplacedBeforeLedger ==
    [][\A m \in Members :
          (task[m].pc = "fetch" /\ task'[m].pc \in {"unattributed", "update"})
          => LET g == task[m].guild
                 after == plat[g]
             IN  /\ g \in DOMAIN invites_cache'
                 /\ DOMAIN invites_cache'[g]
                       = {after[i].code : i \in 1..Len(after)}
                 /\ \A i \in 1..Len(after) :
                       invites_cache'[g][after[i].code] = after[i].uses
                 /\ UNCHANGED <<user_invites, join_events, tx>>
                 /\ \A x \in tx : x.owner # m]_vars

\* C15 witness: one handler ended unattributed, another resolved a code
\* and has made no ledger call yet, and the mapping of guild 1 is the one a
\* handler wrote from a list with a used invite
C15_Witness_BothOutcomes ==
    /\ \E m \in Members : task[m].pc = "unattributed"
    /\ \E m \in Members : task[m].pc = "update" /\ task[m].guild = 1
    /\ cache_writer[1] = "join"
    /\ \E c \in LiveCodes(1) :
          /\ PlatUses(1, c) > 0
          /\ invites_cache[1][c] = PlatUses(1, c)

\* C16: when increment_code_use fails in a join handler, the ledger is
\* unchanged and the join is not lost: the handler run again for the same
\* join would resolve the same code from the cache and the live list.
C16_FailedRecordRetryable ==
    [][\A m \in Members :
          (task[m].pc \in {"update", "insert", "commit"}
           /\ task'[m].pc = "raised")
          => /\ user_invites' = user_invites
             /\ join_events' = join_events
             /\ Resolve(Get(invites_cache', task[m].guild, EmptyMap),
                        plat'[task[m].guild]) = task[m].used_code]_vars

\* C17: a handler whose fetch fails returns (it ends "failed", it does not
\* raise) and has changed nothing: neither its first step nor the failing
\* one changes a table, the open transaction, a role or the cache, and a
\* handler that ended so stays ended with no Join Event of its member.
C17_FetchFailureChangesNothing ==
    [][\A m \in Members :
          /\ (\/ task[m].pc = "start" /\ task'[m].pc = "fetch"
              \/ task[m].pc = "fetch" /\ task'[m].pc \in {"failed", "raised"})
             => /\ task'[m].pc # "raised"
                /\ UNCHANGED <<user_invites, join_events, tx, member_roles,
                               invites_cache>>
          /\ task[m].pc = "failed" => task'[m].pc = "failed"
          /\ task'[m].pc = "failed" => m \notin Recorded(join_events')]_vars

\* C17 witness: a member joined through a registered invite, the handler's
\* fetch failed, and the cache still holds the count from before the join
C17_Witness_FailedFetchStaleCache ==
    /\ \E m \in Members : task[m].pc = "failed"
    /\ \A m \in Members : task[m].pc \in {"failed", "none"}
    /\ \E c \in LiveCodes(1) :
          /\ c \in DOMAIN user_invites
          /\ PlatUses(1, c) = 1
          /\ invites_cache[1][c] = 0
    /\ join_events = EmptyBag

\* C18: the step that ends a role grant, failed or not, changes no table;
\* after a failed grant the handler has ended without raising, no role was
\* added, and the Join Event of its member stays persisted.
C18_GrantFailureKeepsLedger ==
    [][\A m \in Members :
          /\ (task[m].pc = "grant" /\ task'[m].pc # "grant")
             => /\ task'[m].pc \in {"done", "ungranted"}
                /\ UNCHANGED <<user_invites, join_events>>
                /\ task'[m].pc = "ungranted" => member_roles' = member_roles
          /\ task[m].pc = "ungranted" => task'[m].pc = "ungranted"
          /\ task'[m].pc = "ungranted" => m \in Recorded(join_events')]_vars

\* C18 witness: a handler's grant failed; its join is recorded for a
\* registered invite with a counted use, and the inviter holds no role
C18_Witness_UngrantedRecorded ==
    \E m \in Members :
        /\ task[m].pc = "ungranted"
        /\ \E e \in BagToSet(join_events) :
              /\ e.joined_user_id = m
              /\ PersistedUses(e.inviter_code) >= 1
        /\ member_roles = {}

\* C19: no step lowers the persisted uses of an invite row or deletes a
\* row of user_invites or of join_events, and a new row starts with uses 0.
C19_UsesMonotoneRowsKept ==
    [][/\ \A c \in DOMAIN user_invites :
             /\ c \in DOMAIN user_invites'
             /\ user_invites'[c].uses >= user_invites[c].uses
       /\ \A c \in (DOMAIN user_invites') \ (DOMAIN user_invites) :
             user_invites'[c].uses = 0
       /\ join_events \sqsubseteq join_events']_vars

\* C19 witness: an invite with a counted use and a Join Event has been
\* deleted on the platform; its row and its event are still there
C19_Witness_RowOutlivesInvite ==
    \E c \in DOMAIN user_invites :
        /\ c \notin AllLiveCodes
        /\ user_invites[c].uses >= 1
        /\ EventCount(c) >= 1

\* ======================================================= sequential joins
\* The program with join handlers run one at a time (a member joins only
\* when no handler is in progress) and every live fetch of a handler
\* succeeding; commands, invite events and refreshes as in Spec.
HandlerInProgress ==
    \E m \in Members :
        task[m].pc \in {"start", "fetch", "update", "insert", "commit",
                        "lookup", "grant"}

SequentialJoin(g, c) ==
    /\ ~HandlerInProgress
    /\ PlatformJoin(g, c)

NextSequential ==
    \/ \E g \in Guilds, c \in Codes \cup {Vanity} : SequentialJoin(g, c)
    \/ \E g \in Guilds, c \in Codes : on_invite_delete(g, c)
    \/ \E g \in Guilds : refresh_fetch(g)
    \/ refresh_resume
    \/ \E m \in Members : on_member_join_start(m)
    \/ \E m \in Members : on_member_join_resolve(m)
    \/ \E m \in Members : increment_update(m)
    \/ \E m \in Members : increment_insert(m)
    \/ \E m \in Members : increment_commit(m)
    \/ \E m \in Members : increment_fail(m)
    \/ \E m \in Members : evaluate_reward(m)
    \/ \E m \in Members : grant_reply(m)
    \/ \E m \in Members : grant_failed(m)
    \/ \E g \in InviteGuilds, u \in Users, c \in Codes :
          create_personal_invite(g, u, c)
    \/ create_personal_invite_upsert
    \/ create_personal_invite_fail
    \/ \E g \in InviteGuilds, c \in Codes : create_public_invite(g, c)
    \/ create_public_invite_cache
    \/ reload_rewards

SpecSequential == Init /\ [][NextSequential]_vars

\* C20: with handlers one at a time and every fetch succeeding, a handler
\* whose before snapshot is the guild's mapping as a successful refresh or
\* a previous join handler last wrote it, for a join through a code in the
\* fetched list, resolves exactly the code the member used.
C20_SequentialResolvesUsedCode ==
    [][\A m \in Members :
          (/\ task[m].pc = "fetch"
           /\ task'[m].pc \in {"unattributed", "update"}
           /\ cache_writer[task[m].guild] \in {"refresh", "join"}
           /\ task[m].before = Get(invites_cache, task[m].guild, EmptyMap)
           /\ task[m].via \in LiveCodes(task[m].guild))
          => task'[m].used_code = task[m].via]_vars

====
